---- MODULE Spec2Model ----
(***************************************************************************)
(* The global port registry of grove (src/services/ports.ts): a JSON file  *)
(* that maps allocated ports to the (project, environment, variable) that  *)
(* holds them, with the allocate / release / query operations on it.       *)
(*                                                                         *)
(* The specifications share the definitions of the operations:             *)
(*   Spec         one CLI invocation at a time; every call runs to         *)
(*                completion before the next one starts;                   *)
(*   SpecConc     two CLI processes whose file system calls interleave;    *)
(*   SpecForeign  Spec on a registry file of another format version;       *)
(*   SpecCmd      the create and delete commands, one at a time, with the  *)
(*                git worktrees and branches of the projects.              *)
(***************************************************************************)
EXTENDS Integers, Sequences, FiniteSets, TLC

VARIABLES file, last, inv, git

vars == <<file, last, inv, git>>

---------------------------------------------------------------------------
(* Bounds of the model and the values calls are made with.                 *)

PortMin == 30000
NumPorts == 3
MaxVars == 2
MaxCalls == 2


Projects == {"/project/a", "/project/b"}
Envs == {"env1", "env2"}
\* the (project, environment) pairs calls are made for: two environments of
\* one project and an environment of the same name in another project
Environments == {<<"/project/a", "env1">>, <<"/project/a", "env2">>, <<"/project/b", "env1">>}
VarNames == {"HTTP_PORT", "DB_PORT"}
Timestamps == {"2025-12-17T10:00:00.000Z"}

\* varNames: string[]  -- ordered, possibly empty, possibly with duplicates
VarLists == UNION {[1..n -> VarNames] : n \in 0..MaxVars}

PortMax == PortMin + NumPorts - 1

Ports == PortMin .. PortMax

\* portRange: [number, number] with min <= max: the whole range of the
\* model and the range narrowed by one port at either end
PortRanges == {<<PortMin, PortMax>>, <<PortMin, PortMax - 1>>, <<PortMin + 1, PortMax>>}

NoPort == -1

---------------------------------------------------------------------------
(* Port numbers as object keys: String(port) and Number(key).  A key is    *)
(* the decimal digit string of the port, modelled as its digit sequence.   *)

RECURSIVE String(_)
String(n) == IF n < 10 THEN <<n>> ELSE Append(String(n \div 10), n % 10)

\* Number(key): the digits of s[1..i] read as a decimal number
RECURSIVE parseDigits(_, _)
parseDigits(s, i) == IF i = 0 THEN 0 ELSE 10 * parseDigits(s, i - 1) + s[i]

Number(s) == parseDigits(s, Len(s))

\* Object.keys / Object.entries of an object with integer-like keys:
\* ascending numeric order.
RECURSIVE ascending(_)
ascending(numbered) ==
  IF numbered = {} THEN <<>>
  ELSE LET m == CHOOSE x \in numbered : \A y \in numbered : x[1] <= y[1]
       IN <<m[2]>> \o ascending(numbered \ {m})

ObjectKeys(obj) == ascending({<<Number(k), k>> : k \in DOMAIN obj})

\* obj[key] = value
SetKey(obj, key, value) ==
  [k \in DOMAIN obj \cup {key} |-> IF k = key THEN value ELSE obj[k]]

\* delete obj[key]
DeleteKey(obj, key) == [k \in DOMAIN obj \ {key} |-> obj[k]]

EmptyObject == [k \in {} |-> 0]

---------------------------------------------------------------------------
(* The registry value and its JSON document.                               *)

PortAllocation(project, environment, varName, allocatedAt) ==
  [project |-> project, environment |-> environment,
   varName |-> varName, allocatedAt |-> allocatedAt]

createEmptyRegistry == [version |-> 1, allocations |-> EmptyObject]

\* mutant: the allocatedAt field is left out of the document
JSON_stringify_withoutAllocatedAt(registry) ==
  LET keys == ObjectKeys(registry.allocations)
  IN [version |-> registry.version,
      allocations |-> [i \in 1..Len(keys) |->
                         <<keys[i], [registry.allocations[keys[i]]
                                       EXCEPT !.allocatedAt = ""]>>]]

\* JSON.stringify(registry, null, 2): the members of "allocations" in
\* property order, each a <<key, value>> pair.
JSON_stringify(registry) ==
  LET keys == ObjectKeys(registry.allocations)
  IN [version |-> registry.version,
      allocations |-> [i \in 1..Len(keys) |->
                         <<keys[i], registry.allocations[keys[i]]>>]]

\* JSON.parse(content): an object with one property per member key (the
\* last member of a key wins).
JSON_parse(doc) ==
  LET ms == doc.allocations
      ks == {ms[i][1] : i \in 1..Len(ms)}
      lastOf(k) == CHOOSE i \in 1..Len(ms) :
                     /\ ms[i][1] = k
                     /\ \A j \in 1..Len(ms) : ms[j][1] = k => j <= i
  IN [version |-> doc.version,
      allocations |-> [k \in ks |-> ms[lastOf(k)][2]]]

\* The length of the text JSON.stringify(registry, null, 2) produces.
RECURSIVE membersLength(_, _)
membersLength(members, i) ==
  IF i = 0 THEN 0
  ELSE LET key == members[i][1]
           allocation == members[i][2]
       IN membersLength(members, i - 1) + 108 + Len(key)
            + Len(allocation.project) + Len(allocation.environment)
            + Len(allocation.varName) + Len(allocation.allocatedAt)

JSONLength(doc) ==
  IF Len(doc.allocations) = 0 THEN 39
  ELSE 41 + membersLength(doc.allocations, Len(doc.allocations))

\* The registry file: absent, holding a complete document, or (while a
\* writeFileSync is between its open-with-truncate and its write) empty, or
\* garbled: a shorter document written over a longer one.
NoContent == [version |-> 0, allocations |-> <<>>]

AbsentFile == [state |-> "absent", content |-> NoContent, size |-> 0]
TruncatedFile == [state |-> "truncated", content |-> NoContent, size |-> 0]
GarbledFile(size) == [state |-> "garbled", content |-> NoContent, size |-> size]
CompleteFile(doc) == [state |-> "complete", content |-> doc, size |-> JSONLength(doc)]

\* writeFileSync, first half: open(path, O_WRONLY | O_CREAT | O_TRUNC)
openTruncate(f) == TruncatedFile

\* writeFileSync, second half: the document is written from offset 0 over
\* whatever the file holds by then
writeData(f, doc) ==
  IF f.size <= JSONLength(doc) THEN CompleteFile(doc) ELSE GarbledFile(f.size)

---------------------------------------------------------------------------
(* readRegistry / writeRegistry                                            *)

\* mutant: a file that cannot be parsed is taken for an empty registry
readRegistry_unreadableIsEmpty(f) ==
  IF f.state = "complete"
    THEN [threw |-> "none", registry |-> JSON_parse(f.content)]
  ELSE [threw |-> "none", registry |-> createEmptyRegistry]

\* readRegistry(): [threw, registry].  A missing file is the empty
\* registry; anything else is handed to JSON.parse, which throws a
\* SyntaxError on a document that is not complete JSON.
readRegistry(f) ==
  IF f.state = "absent"
    THEN [threw |-> "none", registry |-> createEmptyRegistry]
  ELSE IF f.state = "complete"
    THEN [threw |-> "none", registry |-> JSON_parse(f.content)]
  ELSE [threw |-> "SyntaxError", registry |-> createEmptyRegistry]

\* writeRegistry(registry), run without interruption, on file f
writeRegistry(f, registry) == writeData(openTruncate(f), JSON_stringify(registry))

---------------------------------------------------------------------------
(* findNextAvailablePort                                                   *)

usedPorts(registry) == {Number(k) : k \in DOMAIN registry.allocations}

\* mutant: the loop condition is port < maxPort
RECURSIVE scanPorts_stopsBeforeMax(_, _, _)
scanPorts_stopsBeforeMax(port, maxPort, used) ==
  IF port >= maxPort THEN NoPort
  ELSE IF port \notin used THEN port
  ELSE scanPorts_stopsBeforeMax(port + 1, maxPort, used)

RECURSIVE scanPorts(_, _, _)
scanPorts(port, maxPort, used) ==
  IF port > maxPort THEN NoPort
  ELSE IF port \notin used THEN port
  ELSE scanPorts(port + 1, maxPort, used)

\* mutant: the used set is built from the keys without Number(), so that no
\* port is ever found in it
findNextAvailablePort_unconvertedKeys(registry, portRange) ==
  scanPorts(portRange[1], portRange[2], {})

\* mutant: the scan starts one above minPort
findNextAvailablePort_skipsMin(registry, portRange) ==
  scanPorts(portRange[1] + 1, portRange[2], usedPorts(registry))

\* mutant: the scan continues above the highest port allocated so far
findNextAvailablePort_continuesAboveHighest(registry, portRange) ==
  LET used == usedPorts(registry)
      above == {p \in portRange[1]..portRange[2] : \A u \in used : u < p}
  IN IF above = {} THEN NoPort ELSE CHOOSE p \in above : \A q \in above : p <= q

\* mutant: the scan runs from maxPort downwards
findNextAvailablePort_highestFree(registry, portRange) ==
  LET free == (portRange[1]..portRange[2]) \ usedPorts(registry)
  IN IF free = {} THEN NoPort ELSE CHOOSE p \in free : \A q \in free : q <= p

\* the port found, or NoPort when the function throws
findNextAvailablePort(registry, portRange) ==
  scanPorts(portRange[1], portRange[2], usedPorts(registry))

---------------------------------------------------------------------------
(* allocatePorts                                                           *)

\* mutant: the loop walks varNames from the last name to the first
RECURSIVE allocateLoop_lastNameFirst(_, _, _, _, _, _, _, _)
allocateLoop_lastNameFirst(registry, allocatedPorts, projectPath, envName, varNames, i, portRange, timestamp) ==
  IF i > Len(varNames)
    THEN [threw |-> "none", registry |-> registry,
          allocatedPorts |-> allocatedPorts]
  ELSE
    LET port == findNextAvailablePort(registry, portRange)
        varName == varNames[Len(varNames) + 1 - i]
    IN IF port = NoPort
         THEN [threw |-> "NoAvailablePorts", registry |-> registry,
               allocatedPorts |-> allocatedPorts]
       ELSE allocateLoop_lastNameFirst(
              [registry EXCEPT !.allocations =
                 SetKey(@, String(port),
                        PortAllocation(projectPath, envName, varName,
                                       timestamp))],
              SetKey(allocatedPorts, varName, port),
              projectPath, envName, varNames, i + 1, portRange, timestamp)

\* the for-loop over varNames, from index i on
RECURSIVE allocateLoop(_, _, _, _, _, _, _, _)
allocateLoop(registry, allocatedPorts, projectPath, envName, varNames, i, portRange, timestamp) ==
  IF i > Len(varNames)
    THEN [threw |-> "none", registry |-> registry,
          allocatedPorts |-> allocatedPorts]
  ELSE
    LET port == findNextAvailablePort(registry, portRange)
    IN IF port = NoPort
         THEN [threw |-> "NoAvailablePorts", registry |-> registry,
               allocatedPorts |-> allocatedPorts]
       ELSE allocateLoop(
              [registry EXCEPT !.allocations =
                 SetKey(@, String(port),
                        PortAllocation(projectPath, envName, varNames[i],
                                       timestamp))],
              SetKey(allocatedPorts, varNames[i], port),
              projectPath, envName, varNames, i + 1, portRange, timestamp)

\* mutant: the registry is written inside the loop, so the ports of the
\* earlier variables are on file when a later variable finds none
allocatePorts_partialCommit(f, projectPath, envName, varNames, portRange, timestamp) ==
  LET rd == readRegistry(f)
      lp == allocateLoop(rd.registry, EmptyObject, projectPath, envName,
                         varNames, 1, portRange, timestamp)
  IN IF lp.threw # "none"
       THEN [threw |-> lp.threw,
             file |-> IF lp.registry = rd.registry THEN f
                      ELSE writeRegistry(f, lp.registry),
             ports |-> EmptyObject, wrote |-> lp.registry # rd.registry]
     ELSE [threw |-> "none", file |-> writeRegistry(f, lp.registry),
           ports |-> lp.allocatedPorts, wrote |-> TRUE]

\* mutant: entries whose port lies outside portRange are dropped from the
\* registry before it is written
allocatePorts_dropsOutOfRange(f, projectPath, envName, varNames, portRange, timestamp) ==
  LET rd == readRegistry(f)
      lp == allocateLoop(rd.registry, EmptyObject, projectPath, envName,
                         varNames, 1, portRange, timestamp)
      kept == {k \in DOMAIN lp.registry.allocations :
                 Number(k) \in portRange[1]..portRange[2]}
      pruned == [lp.registry EXCEPT !.allocations = [k \in kept |-> @[k]]]
  IN IF rd.threw # "none" \/ lp.threw # "none"
       THEN [threw |-> IF rd.threw # "none" THEN rd.threw ELSE lp.threw,
             file |-> f, ports |-> EmptyObject, wrote |-> FALSE]
     ELSE [threw |-> "none", file |-> writeRegistry(f, pruned),
           ports |-> lp.allocatedPorts, wrote |-> TRUE]

\* mutant: an empty varNames is rejected
allocatePorts_rejectsEmpty(f, projectPath, envName, varNames, portRange, timestamp) ==
  LET rd == readRegistry(f)
      lp == allocateLoop(rd.registry, EmptyObject, projectPath, envName,
                         varNames, 1, portRange, timestamp)
  IN IF rd.threw # "none" \/ lp.threw # "none" \/ Len(varNames) = 0
       THEN [threw |-> IF rd.threw # "none" THEN rd.threw
                       ELSE IF lp.threw # "none" THEN lp.threw
                       ELSE "NoVariables",
             file |-> f, ports |-> EmptyObject, wrote |-> FALSE]
     ELSE [threw |-> "none", file |-> writeRegistry(f, lp.registry),
           ports |-> lp.allocatedPorts, wrote |-> TRUE]

\* mutant: the loop starts from an empty registry, not from the one read
allocatePorts_startsEmpty(f, projectPath, envName, varNames, portRange, timestamp) ==
  LET rd == readRegistry(f)
      lp == allocateLoop(createEmptyRegistry, EmptyObject, projectPath,
                         envName, varNames, 1, portRange, timestamp)
  IN IF rd.threw # "none" \/ lp.threw # "none"
       THEN [threw |-> IF rd.threw # "none" THEN rd.threw ELSE lp.threw,
             file |-> f, ports |-> EmptyObject, wrote |-> FALSE]
     ELSE [threw |-> "none", file |-> writeRegistry(f, lp.registry),
           ports |-> lp.allocatedPorts, wrote |-> TRUE]

\* allocatePorts on file f: [threw, file, ports, wrote]
allocatePorts(f, projectPath, envName, varNames, portRange, timestamp) ==
  LET rd == readRegistry(f)
  IN IF rd.threw # "none"
       THEN [threw |-> rd.threw, file |-> f, ports |-> EmptyObject,
             wrote |-> FALSE]
     ELSE
       LET lp == allocateLoop(rd.registry, EmptyObject, projectPath, envName,
                              varNames, 1, portRange, timestamp)
       IN IF lp.threw # "none"
            THEN [threw |-> lp.threw, file |-> f, ports |-> EmptyObject,
                  wrote |-> FALSE]
          ELSE [threw |-> "none", file |-> writeRegistry(f, lp.registry),
                ports |-> lp.allocatedPorts, wrote |-> TRUE]

---------------------------------------------------------------------------
(* releasePorts                                                            *)

\* mutant: the condition is || instead of &&
RECURSIVE releaseLoop_eitherMatches(_, _, _, _, _, _)
releaseLoop_eitherMatches(registry, entries, i, projectPath, envName, releasedCount) ==
  IF i > Len(entries)
    THEN [registry |-> registry, releasedCount |-> releasedCount]
  ELSE
    IF entries[i][2].project = projectPath
       \/ entries[i][2].environment = envName
      THEN releaseLoop_eitherMatches(
             [registry EXCEPT !.allocations = DeleteKey(@, entries[i][1])],
             entries, i + 1, projectPath, envName, releasedCount + 1)
    ELSE releaseLoop_eitherMatches(registry, entries, i + 1, projectPath,
                                   envName, releasedCount)

\* mutant: releasedCount is incremented for every entry the loop visits
RECURSIVE releaseLoop_countsEveryEntry(_, _, _, _, _, _)
releaseLoop_countsEveryEntry(registry, entries, i, projectPath, envName, releasedCount) ==
  IF i > Len(entries)
    THEN [registry |-> registry, releasedCount |-> releasedCount]
  ELSE
    IF entries[i][2].project = projectPath
       /\ entries[i][2].environment = envName
      THEN releaseLoop_countsEveryEntry(
             [registry EXCEPT !.allocations = DeleteKey(@, entries[i][1])],
             entries, i + 1, projectPath, envName, releasedCount + 1)
    ELSE releaseLoop_countsEveryEntry(registry, entries, i + 1, projectPath,
                                      envName, releasedCount + 1)

\* mutant: the loop breaks after the first entry it deletes
RECURSIVE releaseLoop_breaksAfterFirst(_, _, _, _, _, _)
releaseLoop_breaksAfterFirst(registry, entries, i, projectPath, envName, releasedCount) ==
  IF i > Len(entries)
    THEN [registry |-> registry, releasedCount |-> releasedCount]
  ELSE
    IF entries[i][2].project = projectPath
       /\ entries[i][2].environment = envName
      THEN [registry |-> [registry EXCEPT !.allocations = DeleteKey(@, entries[i][1])],
            releasedCount |-> releasedCount + 1]
    ELSE releaseLoop_breaksAfterFirst(registry, entries, i + 1, projectPath,
                                      envName, releasedCount)

\* the for-loop over Object.entries(registry.allocations), from index i on
RECURSIVE releaseLoop(_, _, _, _, _, _)
releaseLoop(registry, entries, i, projectPath, envName, releasedCount) ==
  IF i > Len(entries)
    THEN [registry |-> registry, releasedCount |-> releasedCount]
  ELSE
    LET port == entries[i][1]
        allocation == entries[i][2]
    IN IF allocation.project = projectPath
          /\ allocation.environment = envName
         THEN releaseLoop(
                [registry EXCEPT !.allocations = DeleteKey(@, port)],
                entries, i + 1, projectPath, envName, releasedCount + 1)
       ELSE releaseLoop(registry, entries, i + 1, projectPath, envName,
                        releasedCount)

ObjectEntries(obj) ==
  LET keys == ObjectKeys(obj)
  IN [i \in 1..Len(keys) |-> <<keys[i], obj[keys[i]]>>]

\* the in-memory part of releasePorts: [registry, releasedCount]
releaseMatching(registry, projectPath, envName) ==
  releaseLoop(registry, ObjectEntries(registry.allocations), 1,
              projectPath, envName, 0)

\* mutant: the registry is written back whether or not anything was removed
releasePorts_alwaysWrites(f, projectPath, envName) ==
  LET rd == readRegistry(f)
      lp == releaseMatching(rd.registry, projectPath, envName)
  IN IF rd.threw # "none"
       THEN [threw |-> rd.threw, file |-> f, count |-> 0, wrote |-> FALSE]
     ELSE [threw |-> "none", file |-> writeRegistry(f, lp.registry),
           count |-> lp.releasedCount, wrote |-> TRUE]

\* releasePorts on file f: [threw, file, count, wrote]
releasePorts(f, projectPath, envName) ==
  LET rd == readRegistry(f)
  IN IF rd.threw # "none"
       THEN [threw |-> rd.threw, file |-> f, count |-> 0, wrote |-> FALSE]
     ELSE
       LET lp == releaseMatching(rd.registry, projectPath, envName)
       IN IF lp.releasedCount > 0
            THEN [threw |-> "none", file |-> writeRegistry(f, lp.registry),
                  count |-> lp.releasedCount, wrote |-> TRUE]
          ELSE [threw |-> "none", file |-> f, count |-> 0, wrote |-> FALSE]

---------------------------------------------------------------------------
(* getPortsForEnvironment / getAllocationsForProject                       *)

RECURSIVE portsLoop(_, _, _, _, _)
portsLoop(entries, i, projectPath, envName, ports) ==
  IF i > Len(entries) THEN ports
  ELSE
    LET allocation == entries[i][2]
    IN IF allocation.project = projectPath
          /\ allocation.environment = envName
         THEN portsLoop(entries, i + 1, projectPath, envName,
                        SetKey(ports, allocation.varName,
                               Number(entries[i][1])))
       ELSE portsLoop(entries, i + 1, projectPath, envName, ports)

\* [threw, ports]
getPortsForEnvironment(f, projectPath, envName) ==
  LET rd == readRegistry(f)
  IN IF rd.threw # "none"
       THEN [threw |-> rd.threw, ports |-> EmptyObject]
     ELSE [threw |-> "none",
           ports |-> portsLoop(ObjectEntries(rd.registry.allocations), 1,
                               projectPath, envName, EmptyObject)]

\* mutant: the loop compares the environment name, not the project path
RECURSIVE projectLoop_matchesEnvironmentName(_, _, _, _)
projectLoop_matchesEnvironmentName(entries, i, projectPath, allocations) ==
  IF i > Len(entries) THEN allocations
  ELSE
    LET allocation == entries[i][2]
    IN IF allocation.environment = "env1"
         THEN projectLoop_matchesEnvironmentName(entries, i + 1, projectPath,
                Append(allocations,
                       [envName |-> allocation.environment,
                        varName |-> allocation.varName,
                        port |-> Number(entries[i][1])]))
       ELSE projectLoop_matchesEnvironmentName(entries, i + 1, projectPath,
                                               allocations)

RECURSIVE projectLoop(_, _, _, _)
projectLoop(entries, i, projectPath, allocations) ==
  IF i > Len(entries) THEN allocations
  ELSE
    LET allocation == entries[i][2]
    IN IF allocation.project = projectPath
         THEN projectLoop(entries, i + 1, projectPath,
                Append(allocations,
                       [envName |-> allocation.environment,
                        varName |-> allocation.varName,
                        port |-> Number(entries[i][1])]))
       ELSE projectLoop(entries, i + 1, projectPath, allocations)

\* [threw, allocations]
getAllocationsForProject(f, projectPath) ==
  LET rd == readRegistry(f)
  IN IF rd.threw # "none"
       THEN [threw |-> rd.threw, allocations |-> <<>>]
     ELSE [threw |-> "none",
           allocations |-> projectLoop(
                             ObjectEntries(rd.registry.allocations), 1,
                             projectPath, <<>>)]

---------------------------------------------------------------------------
(* Spec: one invocation at a time.  `last` is the call the current         *)
(* invocation made and what it returned; the invocation then exits.        *)

\* git worktree list / git branch of the projects: the <<project, name>>
\* pairs that have a worktree, and those that have a branch
NoWorktrees == [worktrees |-> {}, branches |-> {}]

NoCall ==
  [op |-> "none", projectPath |-> "", envName |-> "", varNames |-> <<>>,
   portRange |-> <<0, 0>>, threw |-> "none", ports |-> EmptyObject,
   count |-> 0, allocations |-> <<>>, wrote |-> FALSE,
   before |-> AbsentFile]

Init ==
  /\ file = AbsentFile
  /\ last = NoCall
  /\ inv = EmptyObject
  /\ git = NoWorktrees

AllocatePorts ==
  /\ last.op = "none"
  /\ \E e \in Environments, varNames \in VarLists, portRange \in PortRanges, timestamp \in Timestamps :
       LET out == allocatePorts(file, e[1], e[2], varNames, portRange, timestamp)
       IN /\ file' = out.file
          /\ last' = [NoCall EXCEPT !.op = "allocatePorts",
                                    !.projectPath = e[1],
                                    !.envName = e[2],
                                    !.varNames = varNames,
                                    !.portRange = portRange,
                                    !.threw = out.threw,
                                    !.ports = out.ports,
                                    !.wrote = out.wrote,
                                    !.before = file]
  /\ UNCHANGED <<inv, git>>

ReleasePorts ==
  /\ last.op = "none"
  /\ \E e \in Environments :
       LET out == releasePorts(file, e[1], e[2])
       IN /\ file' = out.file
          /\ last' = [NoCall EXCEPT !.op = "releasePorts",
                                    !.projectPath = e[1],
                                    !.envName = e[2],
                                    !.threw = out.threw,
                                    !.count = out.count,
                                    !.wrote = out.wrote,
                                    !.before = file]
  /\ UNCHANGED <<inv, git>>

\* mutant: the query writes the registry it has read back to the file
GetPortsForEnvironment_writesBack ==
  /\ last.op = "none"
  /\ \E e \in Environments :
       LET out == getPortsForEnvironment(file, e[1], e[2])
       IN /\ last' = [NoCall EXCEPT !.op = "getPortsForEnvironment",
                                    !.projectPath = e[1],
                                    !.envName = e[2],
                                    !.threw = out.threw,
                                    !.ports = out.ports,
                                    !.before = file]
          /\ file' = writeRegistry(file, readRegistry(file).registry)
  /\ UNCHANGED <<inv, git>>

GetPortsForEnvironment ==
  /\ last.op = "none"
  /\ \E e \in Environments :
       LET out == getPortsForEnvironment(file, e[1], e[2])
       IN last' = [NoCall EXCEPT !.op = "getPortsForEnvironment",
                                 !.projectPath = e[1],
                                 !.envName = e[2],
                                 !.threw = out.threw,
                                 !.ports = out.ports,
                                 !.before = file]
  /\ UNCHANGED <<file, inv, git>>

GetAllocationsForProject ==
  /\ last.op = "none"
  /\ \E projectPath \in Projects :
       LET out == getAllocationsForProject(file, projectPath)
       IN last' = [NoCall EXCEPT !.op = "getAllocationsForProject",
                                 !.projectPath = projectPath,
                                 !.threw = out.threw,
                                 !.allocations = out.allocations,
                                 !.before = file]
  /\ UNCHANGED <<file, inv, git>>

\* the invocation ends; nothing but the file survives it
Exit ==
  /\ last.op # "none"
  /\ last' = NoCall
  /\ UNCHANGED <<file, inv, git>>

Next ==
  \/ AllocatePorts
  \/ ReleasePorts
  \/ GetPortsForEnvironment
  \/ GetAllocationsForProject
  \/ Exit

Spec == Init /\ [][Next]_vars

---------------------------------------------------------------------------
(* What a file holds, read off its document.                               *)

\* the <<key, allocation>> members of a file
Members(f) ==
  IF f.state = "complete"
    THEN {f.content.allocations[i] : i \in 1..Len(f.content.allocations)}
  ELSE {}

\* the ports with a live allocation in a file
HeldPorts(f) == {Number(m[1]) : m \in Members(f)}

OwnedBy(m, projectPath, envName) ==
  m[2].project = projectPath /\ m[2].environment = envName

\* the members the last call added / removed
Added == Members(file) \ Members(last.before)
Removed == Members(last.before) \ Members(file)

Allocated == last.op = "allocatePorts" /\ last.threw = "none"
Released == last.op = "releasePorts" /\ last.threw = "none"

InRange(portRange) == portRange[1] .. portRange[2]

Lowest(S) == CHOOSE p \in S : \A q \in S : p <= q

---------------------------------------------------------------------------
\* C1: with calls executed one at a time, every port of the registry file
\* is the key of exactly one allocation, and a successful Allocate neither
\* returns nor records a port that a live allocation held when it was
\* called.
C1_UniquePorts ==
  /\ \A i, j \in 1..Len(file.content.allocations) :
       Number(file.content.allocations[i][1])
         = Number(file.content.allocations[j][1]) => i = j
  /\ Allocated =>
       /\ \A v \in DOMAIN last.ports :
            last.ports[v] \notin HeldPorts(last.before)
       /\ \A m \in Added : Number(m[1]) \notin HeldPorts(last.before)
       /\ \A m \in Members(last.before) : m \in Members(file)

\* an Allocate returned ports while another project held ports
C1_Witness ==
  /\ Allocated
  /\ DOMAIN last.ports # {}
  /\ \E m \in Members(last.before) : m[2].project # last.projectPath

---------------------------------------------------------------------------
\* C2: the i-th variable of a successful Allocate is given the lowest port
\* of [min, max] that is neither a key of the registry the call loaded nor
\* a port given to an earlier variable of the same call.
RECURSIVE FirstFit(_, _, _)
FirstFit(taken, portRange, n) ==
  IF n = 0 THEN <<>>
  ELSE LET free == InRange(portRange) \ taken
       IN IF free = {} THEN <<NoPort>> \o FirstFit(taken, portRange, n - 1)
          ELSE <<Lowest(free)>>
                 \o FirstFit(taken \cup {Lowest(free)}, portRange, n - 1)

C2_LowestFreePort ==
  Allocated =>
    LET fit == FirstFit(HeldPorts(last.before), last.portRange,
                        Len(last.varNames))
    IN /\ \A i \in 1..Len(last.varNames) :
            /\ fit[i] # NoPort
            /\ \E m \in Added :
                 /\ Number(m[1]) = fit[i]
                 /\ m[2].varName = last.varNames[i]
                 /\ OwnedBy(m, last.projectPath, last.envName)
       /\ {Number(m[1]) : m \in Added}
            = {fit[i] : i \in 1..Len(last.varNames)}
       /\ \A v \in DOMAIN last.ports :
            \E i \in 1..Len(last.varNames) :
              last.varNames[i] = v /\ last.ports[v] = fit[i]

\* two variables were allocated past a port that was already taken
C2_Witness ==
  /\ Allocated
  /\ Len(last.varNames) = 2
  /\ \E p \in HeldPorts(last.before) :
       p \in InRange(last.portRange) /\ \E m \in Added : Number(m[1]) > p

---------------------------------------------------------------------------
\* C3: an Allocate that fails because a variable finds no free port in
\* [min, max] leaves the registry file exactly as it was and writes nothing.
C3_ExhaustionLeavesRegistry ==
  (last.op = "allocatePorts" /\ last.threw = "NoAvailablePorts") =>
    /\ file = last.before
    /\ ~last.wrote

\* the failing call had found a port for an earlier variable
C3_Witness ==
  /\ last.op = "allocatePorts"
  /\ last.threw = "NoAvailablePorts"
  /\ Len(last.varNames) >= 2
  /\ InRange(last.portRange) \ HeldPorts(last.before) # {}
  /\ Members(last.before) # {}

---------------------------------------------------------------------------
\* C4: Release(project, environment) removes exactly the allocations of
\* that project and environment, returns how many it removed and leaves
\* every other allocation as it was.
C4_ReleaseExactlyMatching ==
  Released =>
    /\ Members(file)
         = {m \in Members(last.before) :
              ~OwnedBy(m, last.projectPath, last.envName)}
    /\ last.count
         = Cardinality({m \in Members(last.before) :
                          OwnedBy(m, last.projectPath, last.envName)})
    /\ last.count = Cardinality(Removed)

\* a Release removed something while another environment of the project
\* and the same environment name of another project held ports
C4_Witness ==
  /\ Released
  /\ last.count >= 1
  /\ \E m \in Members(file) :
       m[2].project = last.projectPath /\ m[2].environment # last.envName
  /\ \E m \in Members(file) :
       m[2].project # last.projectPath /\ m[2].environment = last.envName

---------------------------------------------------------------------------
(* C5 is about the Allocate call that follows a Release.  Between the two  *)
(* calls nothing but the file exists, so the next Allocate is              *)
(* allocatePorts applied to the file the Release left.                     *)

\* the ports the last call, a Release, was asked to free
Freed ==
  {Number(m[1]) : m \in {x \in Members(last.before) :
                           OwnedBy(x, last.projectPath, last.envName)}}

\* the ports an Allocate with outcome out would add to the current file
NewPorts(out) == HeldPorts(out.file) \ HeldPorts(file)

\* C5 (as claimed): the Allocate that directly follows a Release assigns
\* the lowest port of its range that the Release freed.
C5_AssignsLowestFreedPort ==
  (Released /\ last.count > 0) =>
    \A e \in Environments, varNames \in VarLists, portRange \in PortRanges, timestamp \in Timestamps :
      LET out == allocatePorts(file, e[1], e[2], varNames, portRange, timestamp)
      IN (/\ Len(varNames) >= 1
          /\ Freed \cap InRange(portRange) # {}
          /\ out.threw = "none")
           => Lowest(NewPorts(out)) = Lowest(Freed \cap InRange(portRange))

\* C5 (amended): a port removed by Release is free for the very next
\* Allocate of any project: a one-variable Allocate whose range holds a
\* freed port succeeds, and every successful Allocate assigns the lowest
\* free port of its range, which is never above the lowest freed port of
\* the range.
C5_FreedPortsReusedAtOnce ==
  (Released /\ last.count > 0) =>
    \A e \in Environments, varNames \in VarLists, portRange \in PortRanges, timestamp \in Timestamps :
      LET out == allocatePorts(file, e[1], e[2], varNames, portRange, timestamp)
          freedInRange == Freed \cap InRange(portRange)
      IN (Len(varNames) >= 1 /\ freedInRange # {}) =>
           /\ Len(varNames) = 1 => out.threw = "none"
           /\ out.threw = "none" =>
                /\ Lowest(NewPorts(out))
                     = Lowest(InRange(portRange) \ HeldPorts(file))
                /\ Lowest(NewPorts(out)) <= Lowest(freedInRange)

\* a Release freed a port below a port that is still held, and an Allocate
\* of another project is about to get the freed port
C5_Witness ==
  /\ Released
  /\ last.count > 0
  /\ \E p \in Freed : \E q \in HeldPorts(file) : p < q
  /\ \E e \in Environments, portRange \in PortRanges, timestamp \in Timestamps :
       LET out == allocatePorts(file, e[1], e[2], <<"HTTP_PORT">>, portRange, timestamp)
       IN /\ e[1] # last.projectPath
          /\ out.threw = "none"
          /\ NewPorts(out) = {Lowest(Freed)}

---------------------------------------------------------------------------
\* C7: no two live allocations of the registry share the same project,
\* environment and variable name.
C7_UniqueVariables ==
  \A m1, m2 \in Members(file) :
    (/\ m1[2].project = m2[2].project
     /\ m1[2].environment = m2[2].environment
     /\ m1[2].varName = m2[2].varName) => m1 = m2

---------------------------------------------------------------------------
\* C8: a successful Allocate returns one port for every element of
\* varNames, the returned ports are pairwise distinct, and every allocation
\* the call recorded is reported in the returned mapping.
C8_ReturnsEveryAllocation ==
  Allocated =>
    /\ \A i \in 1..Len(last.varNames) : last.varNames[i] \in DOMAIN last.ports
    /\ Cardinality(DOMAIN last.ports) = Len(last.varNames)
    /\ \A v, w \in DOMAIN last.ports : last.ports[v] = last.ports[w] => v = w
    /\ {Number(m[1]) : m \in Added} = {last.ports[v] : v \in DOMAIN last.ports}

---------------------------------------------------------------------------
(* SpecConc: two CLI processes.  Each runs its calls one after the other;  *)
(* the steps of a call that touch the file (the read, the open with        *)
(* truncation and the write of writeFileSync) interleave with the steps of *)
(* the other process.  No lock is taken around them.                       *)

Procs == {"p1", "p2"}

\* two create / delete / list commands run side by side in one project, each
\* for its own environment, with the project's configured range
ProcEnvironment == [p1 |-> <<"/project/a", "env1">>, p2 |-> <<"/project/a", "env2">>]
ConcRanges == {<<PortMin, PortMax>>}
ConcVarLists == {<<"HTTP_PORT">>, <<"HTTP_PORT", "DB_PORT">>}

NotCalled ==
  [pc |-> "start", op |-> "none", projectPath |-> "", envName |-> "",
   varNames |-> <<>>, portRange |-> <<0, 0>>, threw |-> "none",
   ports |-> EmptyObject, count |-> 0, allocations |-> <<>>,
   registry |-> createEmptyRegistry, before |-> AbsentFile,
   writes |-> 0, calls |-> 0]

InitConc ==
  /\ file = AbsentFile
  /\ last = NoCall
  /\ inv = [p \in Procs |-> NotCalled]
  /\ git = NoWorktrees

\* process p is between calls and may make another one
CanCall(p) == inv[p].pc \in {"start", "returned"} /\ inv[p].calls < MaxCalls

NewCall(p, op, projectPath, envName) ==
  [NotCalled EXCEPT !.op = op, !.projectPath = projectPath,
                    !.envName = envName, !.before = file,
                    !.calls = inv[p].calls + 1]

\* allocatePorts up to its call of writeRegistry
AllocateRead(p) ==
  /\ CanCall(p)
  /\ \E e \in {ProcEnvironment[p]}, varNames \in ConcVarLists, portRange \in ConcRanges, timestamp \in Timestamps :
       LET rd == readRegistry(file)
           lp == allocateLoop(rd.registry, EmptyObject, e[1], e[2], varNames, 1, portRange, timestamp)
           call == [NewCall(p, "allocatePorts", e[1], e[2]) EXCEPT
                      !.varNames = varNames, !.portRange = portRange]
       IN inv' = [inv EXCEPT ![p] =
            IF rd.threw # "none"
              THEN [call EXCEPT !.pc = "returned", !.threw = rd.threw]
            ELSE IF lp.threw # "none"
              THEN [call EXCEPT !.pc = "returned", !.threw = lp.threw]
            ELSE [call EXCEPT !.pc = "loaded", !.registry = lp.registry,
                              !.ports = lp.allocatedPorts]]
  /\ UNCHANGED <<file, last, git>>

\* releasePorts up to its call of writeRegistry
ReleaseRead(p) ==
  /\ CanCall(p)
  /\ \E e \in {ProcEnvironment[p]} :
       LET rd == readRegistry(file)
           lp == releaseMatching(rd.registry, e[1], e[2])
           call == NewCall(p, "releasePorts", e[1], e[2])
       IN inv' = [inv EXCEPT ![p] =
            IF rd.threw # "none"
              THEN [call EXCEPT !.pc = "returned", !.threw = rd.threw]
            ELSE IF lp.releasedCount > 0
              THEN [call EXCEPT !.pc = "loaded", !.registry = lp.registry,
                                !.count = lp.releasedCount]
            ELSE [call EXCEPT !.pc = "returned"]]
  /\ UNCHANGED <<file, last, git>>

QueryEnvironment(p) ==
  /\ CanCall(p)
  /\ \E e \in {ProcEnvironment[p]} :
       LET out == getPortsForEnvironment(file, e[1], e[2])
       IN inv' = [inv EXCEPT ![p] =
            [NewCall(p, "getPortsForEnvironment", e[1], e[2]) EXCEPT
               !.pc = "returned", !.threw = out.threw, !.ports = out.ports]]
  /\ UNCHANGED <<file, last, git>>

QueryProject(p) ==
  /\ CanCall(p)
  /\ \E projectPath \in {ProcEnvironment[p][1]} :
       LET out == getAllocationsForProject(file, projectPath)
       IN inv' = [inv EXCEPT ![p] =
            [NewCall(p, "getAllocationsForProject", projectPath, "") EXCEPT
               !.pc = "returned", !.threw = out.threw,
               !.allocations = out.allocations]]
  /\ UNCHANGED <<file, last, git>>

\* mutant: before it writes, the call reads the file again and applies its
\* change to what the file holds by then
WriteOpen_reloads(p) ==
  LET rd == readRegistry(file)
      mine == {k \in DOMAIN inv[p].registry.allocations :
                 /\ inv[p].registry.allocations[k].project = inv[p].projectPath
                 /\ inv[p].registry.allocations[k].environment = inv[p].envName}
      merged == [k \in DOMAIN rd.registry.allocations \cup mine |->
                   IF k \in mine THEN inv[p].registry.allocations[k]
                   ELSE rd.registry.allocations[k]]
      reloaded ==
        IF rd.threw # "none" THEN inv[p].registry
        ELSE IF inv[p].op = "releasePorts"
          THEN releaseMatching(rd.registry, inv[p].projectPath, inv[p].envName).registry
        ELSE [rd.registry EXCEPT !.allocations = merged]
  IN /\ inv[p].pc = "loaded"
     /\ file' = openTruncate(file)
     /\ inv' = [inv EXCEPT ![p].pc = "writing", ![p].writes = @ + 1,
                           ![p].registry = reloaded]
     /\ UNCHANGED <<last, git>>

\* writeRegistry: writeFileSync opens the file, which empties it
WriteOpen(p) ==
  /\ inv[p].pc = "loaded"
  /\ file' = openTruncate(file)
  /\ inv' = [inv EXCEPT ![p].pc = "writing", ![p].writes = @ + 1]
  /\ UNCHANGED <<last, git>>

\* the keys the current call of p has added to the registry it read
NewKeys(p) ==
  DOMAIN inv[p].registry.allocations \ {m[1] : m \in Members(inv[p].before)}

\* mutant: allocatePorts calls writeRegistry inside its loop, once per
\* variable, each time with the allocations made so far
WriteData_insideLoop(p) ==
  LET new == ObjectKeys([k \in NewKeys(p) |-> 0])
      later == {new[i] : i \in (inv[p].writes + 1)..Len(new)}
      sofar == [inv[p].registry EXCEPT !.allocations =
                  [k \in DOMAIN @ \ later |-> @[k]]]
      more == inv[p].op = "allocatePorts" /\ later # {}
  IN /\ inv[p].pc = "writing"
     /\ file' = writeData(file, JSON_stringify(IF more THEN sofar ELSE inv[p].registry))
     /\ inv' = [inv EXCEPT ![p].pc = IF more THEN "loaded" ELSE "returned"]
     /\ UNCHANGED <<last, git>>

\* writeRegistry: writeFileSync writes the document; the call returns
WriteData(p) ==
  /\ inv[p].pc = "writing"
  /\ file' = writeData(file, JSON_stringify(inv[p].registry))
  /\ inv' = [inv EXCEPT ![p].pc = "returned"]
  /\ UNCHANGED <<last, git>>

\* writeRegistry: writeFileSync cannot open the file (EACCES, EMFILE, ...);
\* the error leaves the call, the file is as it was
WriteOpenFails(p) ==
  /\ inv[p].pc = "loaded"
  /\ inv' = [inv EXCEPT ![p].pc = "returned", ![p].threw = "EACCES",
                        ![p].ports = EmptyObject, ![p].count = 0]
  /\ UNCHANGED <<file, last, git>>

\* writeRegistry: the write of writeFileSync fails after the open (ENOSPC,
\* EIO, ...); the error leaves the call, the file stays as the open left it
WriteDataFails(p) ==
  /\ inv[p].pc = "writing"
  /\ inv' = [inv EXCEPT ![p].pc = "returned", ![p].threw = "ENOSPC",
                        ![p].ports = EmptyObject, ![p].count = 0]
  /\ UNCHANGED <<file, last, git>>

NextConc ==
  \E p \in Procs :
    \/ AllocateRead(p)
    \/ ReleaseRead(p)
    \/ QueryEnvironment(p)
    \/ QueryProject(p)
    \/ WriteOpen(p)
    \/ WriteData(p)
    \/ WriteOpenFails(p)
    \/ WriteDataFails(p)

SpecConc == InitConc /\ [][NextConc]_vars

---------------------------------------------------------------------------
\* C6: two Allocate calls of different processes that read the same
\* registry (both before either has written) with the same range compute
\* the same port, the lowest free one, each records it for its own
\* environment, and each returns it for its first variable.
C6_SameReadSamePort ==
  \A p, q \in Procs :
    (/\ p # q
     /\ inv[p].op = "allocatePorts" /\ inv[q].op = "allocatePorts"
     /\ inv[p].pc # "start" /\ inv[q].pc # "start"
     /\ inv[p].threw = "none" /\ inv[q].threw = "none"
     /\ inv[p].before = inv[q].before
     /\ inv[p].portRange = inv[q].portRange) =>
      LET port == Lowest(InRange(inv[p].portRange) \ HeldPorts(inv[p].before))
      IN \A r \in {p, q} :
           /\ String(port) \in DOMAIN inv[r].registry.allocations
           /\ inv[r].registry.allocations[String(port)].environment = inv[r].envName
           /\ inv[r].ports[inv[r].varNames[1]] = port

\* both calls have written and returned, and two environments were given
\* the same port
C6_Witness ==
  \E p, q \in Procs :
    /\ inv[p].op = "allocatePorts" /\ inv[q].op = "allocatePorts"
    /\ inv[p].pc = "returned" /\ inv[q].pc = "returned"
    /\ inv[p].writes = 1 /\ inv[q].writes = 1
    /\ inv[p].envName # inv[q].envName
    /\ \E v \in DOMAIN inv[p].ports, w \in DOMAIN inv[q].ports :
         inv[p].ports[v] = inv[q].ports[w]

---------------------------------------------------------------------------
---------------------------------------------------------------------------
\* C10: the file is replaced atomically: whatever a process reads is a
\* complete document (or no file), never a partially written file.
C10_ReadersSeeCompleteFile ==
  \A p \in Procs :
    inv[p].pc # "start" => inv[p].before.state \in {"absent", "complete"}

---------------------------------------------------------------------------
\* C11: when the write of Allocate or Release fails, the registry file is
\* left exactly as it was before the call.  (Stated for a call that runs
\* alone: the other process has not called the registry.)
C11_FailedWriteLeavesFile ==
  \A p \in Procs :
    (/\ inv[p].pc = "returned"
     /\ inv[p].threw \in {"EACCES", "ENOSPC"}
     /\ \A q \in Procs \ {p} : inv[q].pc = "start") =>
      file = inv[p].before

---------------------------------------------------------------------------
\* C12: a Release of a (project, environment) pair that holds no live
\* allocation returns 0 without an error and without a write: the file is
\* neither created nor modified.  Hence a Release repeated directly after
\* any Release of the same pair returns 0 and leaves the file alone.
C12_ReleaseOfNothing ==
  /\ (/\ last.op = "releasePorts"
      /\ ~\E m \in Members(last.before) :
            OwnedBy(m, last.projectPath, last.envName)) =>
       /\ last.threw = "none"
       /\ last.count = 0
       /\ ~last.wrote
       /\ file = last.before
  /\ last.op = "releasePorts" =>
       LET again == releasePorts(file, last.projectPath, last.envName)
       IN /\ again.threw = "none"
          /\ again.count = 0
          /\ ~again.wrote
          /\ again.file = file

\* a Release found nothing for its pair although the registry holds ports
\* of another environment of the same project
C12_Witness ==
  /\ last.op = "releasePorts"
  /\ last.count = 0
  /\ \E m \in Members(last.before) :
       m[2].project = last.projectPath /\ m[2].environment # last.envName

---------------------------------------------------------------------------
\* C13: AllocationsForProject(project) returns exactly one (environment,
\* variable, port) entry for each live allocation of that project, over all
\* its environments, and no entry of any other project.
C13_ExactlyTheProject ==
  (last.op = "getAllocationsForProject" /\ last.threw = "none") =>
    LET ofProject == {m \in Members(last.before) :
                        m[2].project = last.projectPath}
        entry(m) == [envName |-> m[2].environment, varName |-> m[2].varName,
                     port |-> Number(m[1])]
    IN /\ Len(last.allocations) = Cardinality(ofProject)
       /\ {last.allocations[i] : i \in 1..Len(last.allocations)}
            = {entry(m) : m \in ofProject}
       /\ \A i, j \in 1..Len(last.allocations) :
            last.allocations[i].port = last.allocations[j].port => i = j

\* the query returned the ports of two environments of its project while
\* another project held ports under one of the same environment names
C13_Witness ==
  /\ last.op = "getAllocationsForProject"
  /\ \E i, j \in 1..Len(last.allocations) :
       last.allocations[i].envName # last.allocations[j].envName
  /\ \E m \in Members(last.before) :
       /\ m[2].project # last.projectPath
       /\ \E i \in 1..Len(last.allocations) :
            last.allocations[i].envName = m[2].environment

---------------------------------------------------------------------------
\* C14: PortsForEnvironment(project, environment) returns a mapping with
\* one variable-to-port entry for each live allocation of exactly that
\* pair: its size is the number of ports the pair holds, which is the count
\* a Release of the pair returns, and it is empty when the pair holds none.
C14_OneEntryPerAllocation ==
  (last.op = "getPortsForEnvironment" /\ last.threw = "none") =>
    LET ofPair == {m \in Members(last.before) :
                     OwnedBy(m, last.projectPath, last.envName)}
    IN /\ \A v \in DOMAIN last.ports :
            \E m \in ofPair : m[2].varName = v /\ Number(m[1]) = last.ports[v]
       /\ Cardinality(DOMAIN last.ports) = Cardinality(ofPair)
       /\ Cardinality(DOMAIN last.ports)
            = releasePorts(file, last.projectPath, last.envName).count

---------------------------------------------------------------------------
\* C15: PortsForEnvironment and AllocationsForProject (readRegistry and a
\* loop over what it read) never write: the file is the same before and
\* after them, and a file that does not exist stays absent until a
\* successful Allocate creates it.
C15_QueriesDoNotWrite ==
  /\ last.op \in {"getPortsForEnvironment", "getAllocationsForProject"} =>
       /\ file = last.before
       /\ ~last.wrote
  /\ (last.op # "none" /\ last.before.state = "absent"
        /\ file.state # "absent") =>
       last.op = "allocatePorts" /\ last.threw = "none"

\* a query ran while the registry file did not exist, and the file is still
\* absent
C15_Witness ==
  /\ last.op \in {"getPortsForEnvironment", "getAllocationsForProject"}
  /\ last.before.state = "absent"
  /\ file.state = "absent"

---------------------------------------------------------------------------
\* C16: on an empty registry an Allocate for N variables with range
\* [min, max] records port min+i-1 for its i-th variable, and the next
\* Allocate with the same range, no Release in between, records min+N for
\* its first variable.
C16_SequentialFromMin ==
  (Allocated /\ Members(last.before) = {}) =>
    LET min == last.portRange[1]
        N == Len(last.varNames)
    IN /\ \A i \in 1..N :
            \E m \in Members(file) :
              /\ Number(m[1]) = min + i - 1
              /\ m[2].varName = last.varNames[i]
              /\ OwnedBy(m, last.projectPath, last.envName)
       /\ HeldPorts(file) = min .. (min + N - 1)
       /\ \A e \in Environments, varNames \in VarLists, timestamp \in Timestamps :
            LET out == allocatePorts(file, e[1], e[2], varNames, last.portRange, timestamp)
            IN (Len(varNames) >= 1 /\ out.threw = "none") =>
                 /\ Lowest(NewPorts(out)) = min + N
                 /\ \E m \in Members(out.file) :
                      /\ Number(m[1]) = min + N
                      /\ m[2].varName = varNames[1]
                      /\ OwnedBy(m, e[1], e[2])

\* the first Allocate recorded two different variables and a second
\* Allocate, of another environment, has room to continue
C16_Witness ==
  /\ Allocated
  /\ Members(last.before) = {}
  /\ Len(last.varNames) = 2
  /\ last.varNames[1] # last.varNames[2]
  /\ \E e \in Environments, timestamp \in Timestamps :
       /\ e # <<last.projectPath, last.envName>>
       /\ allocatePorts(file, e[1], e[2], <<"HTTP_PORT">>, last.portRange, timestamp).threw = "none"

---------------------------------------------------------------------------
\* C17: Allocate fails with the range-exhaustion error exactly when fewer
\* ports of [min, max] are free (not a key of the registry) than variable
\* names were requested, and it fails in no other way.
C17_FailsOnlyWhenExhausted ==
  last.op = "allocatePorts" =>
    LET free == InRange(last.portRange) \ HeldPorts(last.before)
    IN /\ last.threw \in {"none", "NoAvailablePorts"}
       /\ last.threw = "NoAvailablePorts"
            <=> Cardinality(free) < Len(last.varNames)

\* an Allocate for two names failed with one free port left in its range,
\* and an Allocate for one name is about to succeed on that port
C17_Witness ==
  /\ last.op = "allocatePorts"
  /\ last.threw = "NoAvailablePorts"
  /\ Len(last.varNames) = 2
  /\ Cardinality(InRange(last.portRange) \ HeldPorts(last.before)) = 1
  /\ \E timestamp \in Timestamps :
       allocatePorts(file, last.projectPath, last.envName, <<"DB_PORT">>, last.portRange, timestamp).threw = "none"

---------------------------------------------------------------------------
\* C18: every port an Allocate with range [min, max] records lies in
\* [min, max], and the allocations recorded before the call stay as they
\* were, those whose port is outside [min, max] included.
C18_RangeBoundsNewPortsOnly ==
  Allocated =>
    /\ \A m \in Added : Number(m[1]) \in InRange(last.portRange)
    /\ \A v \in DOMAIN last.ports : last.ports[v] \in InRange(last.portRange)
    /\ \A m \in Members(last.before) : m \in Members(file)

\* an Allocate recorded a port while the registry held an allocation made
\* under another range, whose port is outside the range of this call
C18_Witness ==
  /\ Allocated
  /\ Added # {}
  /\ \E m \in Members(last.before) :
       /\ Number(m[1]) \notin InRange(last.portRange)
       /\ m \in Members(file)

---------------------------------------------------------------------------
\* C19: a successful Allocate for N variables writes the file once, after
\* its loop: reading and looping leave the file alone, the one open of the
\* call empties the file, and the one write that follows puts all N new
\* allocations of the call into the file together.
C19_OneWriteOfAll ==
  [][\A p \in Procs :
       (inv'[p] # inv[p] /\ inv'[p].op = "allocatePorts") =>
         /\ inv'[p].writes <= 1
         /\ inv'[p].pc = "loaded" =>
              /\ file' = file
              /\ inv'[p].writes = 0
              /\ Cardinality(NewKeys(p)') = Len(inv'[p].varNames)
         /\ inv'[p].pc = "writing" =>
              /\ inv[p].pc = "loaded"
              /\ inv'[p].writes = 1
              /\ Members(file') = {}
         /\ (inv[p].pc = "writing" /\ inv'[p].threw = "none") =>
              /\ inv'[p].pc = "returned"
              /\ Cardinality(NewKeys(p)') = Len(inv'[p].varNames)
              /\ file'.state = "complete" =>
                   \A k \in NewKeys(p)' :
                     <<k, inv'[p].registry.allocations[k]>> \in Members(file')
    ]_vars

\* an Allocate for two variables has returned after its one write, and the
\* file holds both of its allocations
C19_Witness ==
  \E p \in Procs :
    /\ inv[p].op = "allocatePorts"
    /\ inv[p].pc = "returned"
    /\ inv[p].threw = "none"
    /\ inv[p].writes = 1
    /\ Len(inv[p].varNames) = 2
    /\ Cardinality(NewKeys(p)) = 2
    /\ \A k \in NewKeys(p) :
         <<k, inv[p].registry.allocations[k]>> \in Members(file)

---------------------------------------------------------------------------
(* SpecForeign: one invocation at a time, as in Spec, on a registry file   *)
(* that this program did not create: a complete JSON document whose        *)
(* version field is not 1, left by another release of the format.          *)

ForeignVersions == {2}

ForeignFiles ==
  {CompleteFile(JSON_stringify(
     [version |-> v,
      allocations |-> SetKey(EmptyObject, String(PortMin),
                             PortAllocation("/project/a", "env1", "HTTP_PORT", t))])) :
     v \in ForeignVersions, t \in Timestamps}

InitForeign ==
  /\ file \in ForeignFiles
  /\ last = NoCall
  /\ inv = EmptyObject
  /\ git = NoWorktrees

SpecForeign == InitForeign /\ [][Next]_vars

\* C20: a registry file whose version field is not 1 is rejected or
\* migrated when it is read: a call that read such a file fails, or leaves
\* a version 1 file; it does not go on with the allocations as they are.
C20_UnknownVersionRejected ==
  (/\ last.op # "none"
   /\ last.before.state = "complete"
   /\ last.before.content.version # 1) =>
    \/ last.threw # "none"
    \/ file.content.version = 1

---------------------------------------------------------------------------
---------------------------------------------------------------------------
\* C23: an Allocate with an empty list of variable names succeeds, returns
\* the empty mapping and leaves the set of allocations as it was, whatever
\* the range and however full it is.
C23_EmptyListAllocatesNothing ==
  (last.op = "allocatePorts" /\ Len(last.varNames) = 0) =>
    /\ last.threw = "none"
    /\ last.ports = EmptyObject
    /\ Members(file) = Members(last.before)

\* an Allocate of no names ran on a registry whose range was full
C23_Witness ==
  /\ last.op = "allocatePorts"
  /\ Len(last.varNames) = 0
  /\ InRange(last.portRange) \subseteq HeldPorts(last.before)

---------------------------------------------------------------------------
---------------------------------------------------------------------------
(* C25 is about a Release and an Allocate of different processes that have *)
(* read the same file, at the moment one of them completes its write.      *)

\* the <<key, allocation>> members of the registry process p holds in memory
Holding(p) ==
  {<<k, inv[p].registry.allocations[k]>> : k \in DOMAIN inv[p].registry.allocations}

\* C25: when a Release and an Allocate of different processes read the
\* same registry before either wrote it, whichever of them writes puts its
\* own registry into the file and nothing else: after the write of the
\* Allocate the file holds the allocations the Release removed, after the
\* write of the Release the file lacks the ports the Allocate added.
C25_LaterWriteWins ==
  [][\A r, a \in Procs :
       (/\ inv[r].op = "releasePorts" /\ inv[r].pc \in {"loaded", "writing", "returned"}
        /\ inv[a].op = "allocatePorts" /\ inv[a].pc \in {"loaded", "writing", "returned"}
        /\ inv[r].threw = "none" /\ inv[a].threw = "none"
        /\ inv[r].count > 0
        /\ inv[r].before = inv[a].before
        /\ file'.state = "complete") =>
         /\ (inv[a].pc = "writing" /\ inv'[a].pc = "returned" /\ inv'[a].threw = "none") =>
              /\ Members(file') = Holding(a)
              /\ \A m \in Members(inv[r].before) :
                   OwnedBy(m, inv[r].projectPath, inv[r].envName) => m \in Members(file')
         /\ (inv[r].pc = "writing" /\ inv'[r].pc = "returned" /\ inv'[r].threw = "none") =>
              /\ Members(file') = Holding(r)
              /\ \A k \in NewKeys(a) : \A m \in Members(file') : m[1] # k
    ]_vars

\* both calls have returned; the Release had written first, and the file
\* holds the registry of the Allocate, with the released allocations in it
C25_Witness ==
  \E r, a \in Procs :
    /\ inv[r].op = "releasePorts" /\ inv[r].pc = "returned"
    /\ inv[a].op = "allocatePorts" /\ inv[a].pc = "returned"
    /\ inv[r].threw = "none" /\ inv[a].threw = "none"
    /\ inv[r].writes = 1 /\ inv[a].writes = 1
    /\ inv[r].count > 0
    /\ inv[r].before = inv[a].before
    /\ NewKeys(a) # {}
    /\ Members(file) = Holding(a)
    /\ \E m \in Members(file) : OwnedBy(m, inv[r].projectPath, inv[r].envName)

---------------------------------------------------------------------------
\* C26: in sequential use the number of live allocations is the number of
\* variable names of all successful Allocate calls minus the counts all
\* Release calls returned.  Stated call by call: the registry starts with
\* no allocation, a successful Allocate raises the number by the length of
\* its list, a Release lowers it by the count it returns, and no other
\* call and no failed call changes it.
C26_AllocationsBalance ==
  LET now == Len(file.content.allocations)
      was == Len(last.before.content.allocations)
  IN /\ last.op = "none" /\ file.state = "absent" => now = 0
     /\ Allocated => now = was + Len(last.varNames)
     /\ Released => now = was - last.count
     /\ (last.op # "none" /\ ~Allocated /\ ~Released) => now = was
     /\ now = Cardinality(Members(file))

\* a Release returned a count of two from a registry that held more, after
\* Allocate calls had filled it
C26_Witness ==
  /\ Released
  /\ last.count = 2
  /\ Len(file.content.allocations) >= 1

---------------------------------------------------------------------------
\* C27: for a pair that held no allocation, a successful Allocate of N
\* names followed directly by a Release of the same pair returns N and
\* leaves exactly the allocations there were before the Allocate.
C27_AllocateThenRelease ==
  (/\ Allocated
   /\ ~\E m \in Members(last.before) :
         OwnedBy(m, last.projectPath, last.envName)) =>
    LET out == releasePorts(file, last.projectPath, last.envName)
    IN /\ out.threw = "none"
       /\ out.count = Len(last.varNames)
       /\ Members(out.file) = Members(last.before)
       /\ out.file.content.allocations = last.before.content.allocations

\* an Allocate of two names for a pair that held nothing, in a registry
\* that holds ports of other environments
C27_Witness ==
  /\ Allocated
  /\ Len(last.varNames) = 2
  /\ ~\E m \in Members(last.before) :
        OwnedBy(m, last.projectPath, last.envName)
  /\ Members(last.before) # {}

---------------------------------------------------------------------------
(* SpecCmd: the create and delete commands (src/commands/create.ts,        *)
(* src/commands/delete.ts), run one at a time.  `inv` is the running       *)
(* command, `git` the worktrees and branches of the projects, `file` the   *)
(* port registry.  What git and the user answer is chosen freely.          *)

\* config.portRange of the projects
CmdRanges == {<<PortMin, PortMax>>}

\* getPortVariablesFromProject: the port variables found in the project
CmdPortVars == {<<>>, <<"HTTP_PORT">>, <<"HTTP_PORT", "DB_PORT">>}

NoCommand ==
  [cmd |-> "none", pc |-> "start", projectRoot |-> "", envName |-> "",
   portRange |-> <<0, 0>>, deleteBranch |-> FALSE, existed |-> FALSE,
   threw |-> "none", exitCode |-> 0, allocatedPorts |-> EmptyObject,
   releasedCount |-> 0, before |-> AbsentFile]

InitCmd ==
  /\ file = AbsentFile
  /\ last = NoCall
  /\ inv = NoCommand
  /\ git = NoWorktrees

\* getWorktreeByName(envName, projectRoot): a worktree of the project whose
\* branch is envName
getWorktreeByName(envName, projectRoot) == <<projectRoot, envName>> \in git.worktrees

\* process.exit(code), or a return before the command has done its work
exit(command, code) == [command EXCEPT !.pc = "exited", !.exitCode = code]

\* mutant: create goes on when the environment already has a worktree
CreateStart_ignoresExisting ==
  /\ inv.cmd = "none"
  /\ \E e \in Environments, portRange \in CmdRanges, answer \in {"continue", "cancel"} :
       LET command == [NoCommand EXCEPT !.cmd = "create",
                                        !.projectRoot = e[1],
                                        !.envName = e[2],
                                        !.portRange = portRange,
                                        !.existed = getWorktreeByName(e[2], e[1]),
                                        !.before = file]
       IN inv' = IF answer = "cancel" THEN exit(command, 1)
                 ELSE [command EXCEPT !.pc = "createWorktree"]
  /\ UNCHANGED <<file, last, git>>

\* create, up to the creation of the worktree: the configuration is
\* loaded; an environment that already exists is only activated; the
\* prompt about hardcoded ports may end the command
CreateStart ==
  /\ inv.cmd = "none"
  /\ \E e \in Environments, portRange \in CmdRanges, answer \in {"continue", "cancel"} :
       LET command == [NoCommand EXCEPT !.cmd = "create",
                                        !.projectRoot = e[1],
                                        !.envName = e[2],
                                        !.portRange = portRange,
                                        !.existed = getWorktreeByName(e[2], e[1]),
                                        !.before = file]
       IN inv' = IF getWorktreeByName(e[2], e[1]) THEN exit(command, 0)
                 ELSE IF answer = "cancel" THEN exit(command, 1)
                 ELSE [command EXCEPT !.pc = "createWorktree"]
  /\ UNCHANGED <<file, last, git>>

\* createWorktree: git worktree add, on the existing branch of that name or
\* on a new one; when git refuses, the command exits
CreateWorktree ==
  /\ inv.cmd = "create"
  /\ inv.pc = "createWorktree"
  /\ \E success \in BOOLEAN :
       IF success
         THEN /\ git' = [worktrees |-> git.worktrees \cup {<<inv.projectRoot, inv.envName>>},
                         branches |-> git.branches \cup {<<inv.projectRoot, inv.envName>>}]
              /\ inv' = [inv EXCEPT !.pc = "allocatePorts"]
       ELSE /\ git' = git
            /\ inv' = exit(inv, 1)
  /\ UNCHANGED <<file, last>>

\* mutant: when allocatePorts throws, the worktree and a branch the command
\* created are removed again
CreateAllocatePorts_rollsBack ==
  /\ inv.cmd = "create"
  /\ inv.pc = "allocatePorts"
  /\ \E portVars \in CmdPortVars, timestamp \in Timestamps :
       LET out == allocatePorts(file, inv.projectRoot, inv.envName, portVars, inv.portRange, timestamp)
       IN IF Len(portVars) = 0
            THEN /\ file' = file
                 /\ git' = git
                 /\ inv' = [inv EXCEPT !.pc = "done"]
          ELSE /\ file' = out.file
               /\ git' = IF out.threw = "none" THEN git
                         ELSE [worktrees |-> git.worktrees \ {<<inv.projectRoot, inv.envName>>},
                               branches |-> git.branches \ {<<inv.projectRoot, inv.envName>>}]
               /\ inv' = IF out.threw = "none"
                           THEN [inv EXCEPT !.pc = "done", !.allocatedPorts = out.ports]
                         ELSE [inv EXCEPT !.pc = "failed", !.threw = out.threw]
  /\ UNCHANGED last

\* the rest of create: the port variables of the project are scanned and,
\* if there are any, allocated; an error of allocatePorts is not caught
CreateAllocatePorts ==
  /\ inv.cmd = "create"
  /\ inv.pc = "allocatePorts"
  /\ \E portVars \in CmdPortVars, timestamp \in Timestamps :
       LET out == allocatePorts(file, inv.projectRoot, inv.envName, portVars, inv.portRange, timestamp)
       IN IF Len(portVars) = 0
            THEN /\ file' = file
                 /\ inv' = [inv EXCEPT !.pc = "done"]
          ELSE /\ file' = out.file
               /\ inv' = IF out.threw = "none"
                           THEN [inv EXCEPT !.pc = "done", !.allocatedPorts = out.ports]
                         ELSE [inv EXCEPT !.pc = "failed", !.threw = out.threw]
  /\ UNCHANGED <<last, git>>

\* delete, up to the removal of the worktree: the worktree is looked up,
\* the ports of the environment are read for display, the user confirms
DeleteStart ==
  /\ inv.cmd = "none"
  /\ \E e \in Environments, deleteBranch \in BOOLEAN, confirmed \in BOOLEAN :
       LET command == [NoCommand EXCEPT !.cmd = "delete",
                                        !.projectRoot = e[1],
                                        !.envName = e[2],
                                        !.deleteBranch = deleteBranch,
                                        !.existed = getWorktreeByName(e[2], e[1]),
                                        !.before = file]
           ports == getPortsForEnvironment(file, e[1], e[2])
       IN inv' = IF ~getWorktreeByName(e[2], e[1]) THEN exit(command, 1)
                 ELSE IF ports.threw # "none"
                   THEN [command EXCEPT !.pc = "failed", !.threw = ports.threw]
                 ELSE IF ~confirmed THEN exit(command, 0)
                 ELSE [command EXCEPT !.pc = "removeWorktree"]
  /\ UNCHANGED <<file, last, git>>

\* mutant: the ports are released before the worktree is removed, so they
\* are gone when the removal fails
DeleteRemoveWorktree_releasesFirst ==
  /\ inv.cmd = "delete"
  /\ inv.pc = "removeWorktree"
  /\ \E success \in BOOLEAN, branchDeleted \in BOOLEAN :
       LET out == releasePorts(file, inv.projectRoot, inv.envName)
       IN /\ file' = out.file
          /\ IF success
               THEN /\ git' = [worktrees |-> git.worktrees \ {<<inv.projectRoot, inv.envName>>},
                               branches |-> IF inv.deleteBranch /\ branchDeleted
                                              THEN git.branches \ {<<inv.projectRoot, inv.envName>>}
                                            ELSE git.branches]
                    /\ inv' = [inv EXCEPT !.pc = "releasePorts"]
             ELSE /\ git' = git
                  /\ inv' = exit(inv, 1)
  /\ UNCHANGED last

\* removeWorktree: git worktree remove --force, then git branch -d / -D if
\* asked for; an error of the removal ends the command
DeleteRemoveWorktree ==
  /\ inv.cmd = "delete"
  /\ inv.pc = "removeWorktree"
  /\ \E success \in BOOLEAN, branchDeleted \in BOOLEAN :
       IF success
         THEN /\ git' = [worktrees |-> git.worktrees \ {<<inv.projectRoot, inv.envName>>},
                         branches |-> IF inv.deleteBranch /\ branchDeleted
                                        THEN git.branches \ {<<inv.projectRoot, inv.envName>>}
                                      ELSE git.branches]
              /\ inv' = [inv EXCEPT !.pc = "releasePorts"]
       ELSE /\ git' = git
            /\ inv' = exit(inv, 1)
  /\ UNCHANGED <<file, last>>

\* the rest of delete: releasePorts(projectRoot, envName)
DeleteReleasePorts ==
  /\ inv.cmd = "delete"
  /\ inv.pc = "releasePorts"
  /\ LET out == releasePorts(file, inv.projectRoot, inv.envName)
     IN /\ file' = out.file
        /\ inv' = IF out.threw = "none"
                    THEN [inv EXCEPT !.pc = "done", !.releasedCount = out.count]
                  ELSE [inv EXCEPT !.pc = "failed", !.threw = out.threw]
  /\ UNCHANGED <<last, git>>

\* the command has ended; the next one starts from the files and git only
CommandEnds ==
  /\ inv.pc \in {"done", "exited", "failed"}
  /\ inv' = NoCommand
  /\ UNCHANGED <<file, last, git>>

NextCmd ==
  \/ CreateStart
  \/ CreateWorktree
  \/ CreateAllocatePorts
  \/ DeleteStart
  \/ DeleteRemoveWorktree
  \/ DeleteReleasePorts
  \/ CommandEnds

SpecCmd == InitCmd /\ [][NextCmd]_vars

---------------------------------------------------------------------------
\* member m is an allocation of the environment the running command is for
OfCommand(m) == OwnedBy(m, inv.projectRoot, inv.envName)

\* C22: when the delete command has completed for environment E of project
\* P, the registry holds no allocation of (P, E).  The registry is changed
\* only after the worktree was removed; when the removal fails the command
\* exits with the registry as it was and the worktree still there.
C22_DeleteReleasesAfterRemoval ==
  inv.cmd = "delete" =>
    /\ inv.pc = "done" =>
         /\ ~\E m \in Members(file) : OfCommand(m)
         /\ ~getWorktreeByName(inv.envName, inv.projectRoot)
         /\ inv.releasedCount
              = Cardinality({m \in Members(inv.before) : OfCommand(m)})
    /\ file # inv.before =>
         /\ inv.pc = "done"
         /\ ~getWorktreeByName(inv.envName, inv.projectRoot)
    /\ inv.pc \in {"removeWorktree", "releasePorts", "exited"} =>
         file = inv.before
    /\ (inv.pc = "exited" /\ inv.existed) =>
         getWorktreeByName(inv.envName, inv.projectRoot)

\* a delete has completed that released the ports of its environment and
\* left those of another environment of the project in the registry
C22_Witness ==
  /\ inv.cmd = "delete"
  /\ inv.pc = "done"
  /\ inv.releasedCount >= 1
  /\ \E m \in Members(file) :
       m[2].project = inv.projectRoot /\ m[2].environment # inv.envName

---------------------------------------------------------------------------
\* C28: a create for an environment whose worktree already exists in the
\* project exits before it reaches allocatePorts: the registry and git are
\* left as they were and the environment gets no second set of ports.
C28_CreateOfExistingAllocatesNothing ==
  (inv.cmd = "create" /\ inv.existed) =>
    /\ inv.pc = "exited"
    /\ file = inv.before
    /\ inv.allocatedPorts = EmptyObject
    /\ getWorktreeByName(inv.envName, inv.projectRoot)

\* create was repeated for an environment that holds ports
C28_Witness ==
  /\ inv.cmd = "create"
  /\ inv.existed
  /\ inv.pc = "exited"
  /\ \E m \in Members(file) : OfCommand(m)

---------------------------------------------------------------------------
\* C29: when allocatePorts fails with range exhaustion during create, the
\* command aborts with no port recorded for the new environment and the
\* registry as it was, while the worktree and the branch the command
\* created stay.
C29_ExhaustionKeepsWorktree ==
  (inv.cmd = "create" /\ inv.pc = "failed") =>
    /\ inv.threw = "NoAvailablePorts"
    /\ file = inv.before
    /\ ~\E m \in Members(file) : OfCommand(m)
    /\ inv.allocatedPorts = EmptyObject
    /\ <<inv.projectRoot, inv.envName>> \in git.worktrees
    /\ <<inv.projectRoot, inv.envName>> \in git.branches
    /\ ~inv.existed

\* a create failed on a full range after it had created its worktree, with
\* one port of the range still free
C29_Witness ==
  /\ inv.cmd = "create"
  /\ inv.pc = "failed"
  /\ inv.threw = "NoAvailablePorts"
  /\ Cardinality(InRange(inv.portRange) \ HeldPorts(file)) = 1
  /\ getWorktreeByName(inv.envName, inv.projectRoot)

====
